---------------------------- MODULE Spec2Model ----------------------------
(***************************************************************************)
(* A model of src/data_prep.py: load_raw, clean, save_clean and main.      *)
(*                                                                         *)
(* A table cell is a record [t, n, s]: t is the kind of the value, n its   *)
(* numeric payload and s its text (a sequence of one-character strings).   *)
(*   null   a missing value (NaN, NaT, <NA>, None)                         *)
(*   int    the integer n[1]                                               *)
(*   float  the decimal n[1] * 10^(-n[2]), kept normalised                 *)
(*   str    the text s                                                     *)
(*   ts     the timestamp n = <<year, month, day, hour, minute, second>>   *)
(*   per    the monthly period n = <<year, month>>                         *)
(* A data frame is [columns |-> names, rows |-> rows]; a row maps "index"  *)
(* and each column name to a cell (the index label to a number).           *)
(***************************************************************************)
EXTENDS Integers, Sequences, FiniteSets, TLC

\* Largest number of rows of a raw dataset.
MaxRows == 2

-----------------------------------------------------------------------------
(* Cells *)

Null == [t |-> "null", n |-> <<>>, s |-> <<>>]

Str(chars) == [t |-> "str", n |-> <<>>, s |-> chars]

Int_(v) == [t |-> "int", n |-> <<v, 0>>, s |-> <<>>]

Ts(y, m, d, H, M, S) == [t |-> "ts", n |-> <<y, m, d, H, M, S>>, s |-> <<>>]

Per(y, m) == [t |-> "per", n |-> <<y, m>>, s |-> <<>>]

Abs(x) == IF x < 0 THEN -x ELSE x

RECURSIVE Pow10(_)
Pow10(e) == IF e = 0 THEN 1 ELSE 10 * Pow10(e - 1)

\* The decimal m * 10^(-e) without trailing zeros in its fraction.
RECURSIVE Norm(_, _)
Norm(m, e) == IF e > 0 /\ m % 10 = 0 THEN Norm(m \div 10, e - 1) ELSE <<m, e>>

Float(m, e) == [t |-> "float", n |-> Norm(m, e), s |-> <<>>]

\* isna with the empty text taken for a missing value too.
isna_or_empty(c) == c.t = "null" \/ (c.t = "str" /\ c.s = <<>>)

isna(c) == c.t = "null"

IsNum(c) == c.t \in {"int", "float"}

-----------------------------------------------------------------------------
(* Text *)

Digits == <<"0", "1", "2", "3", "4", "5", "6", "7", "8", "9">>

IsDigit(ch) == \E i \in 1..10 : Digits[i] = ch

DigitVal(ch) == (CHOOSE i \in 1..10 : Digits[i] = ch) - 1

AllDigits(txt) == Len(txt) > 0 /\ \A i \in 1..Len(txt) : IsDigit(txt[i])

\* The value of a sequence of digits.
RECURSIVE NatOf(_)
NatOf(txt) ==
    IF Len(txt) = 0 THEN 0
    ELSE 10 * NatOf(SubSeq(txt, 1, Len(txt) - 1)) + DigitVal(txt[Len(txt)])

\* The digits of a natural number, without leading zeros.
RECURSIVE NatText(_)
NatText(v) ==
    IF v < 10 THEN <<Digits[v + 1]>>
    ELSE Append(NatText(v \div 10), Digits[(v % 10) + 1])

\* The digits of v, padded with zeros on the left to w characters.
RECURSIVE PadText(_, _)
PadText(v, w) ==
    IF w = 0 THEN <<>>
    ELSE Append(PadText(v \div 10, w - 1), Digits[(v % 10) + 1])

Find(txt, ch) ==
    IF \E i \in 1..Len(txt) : txt[i] = ch
    THEN CHOOSE i \in 1..Len(txt) : txt[i] = ch /\ \A j \in 1..(i - 1) : txt[j] # ch
    ELSE 0

-----------------------------------------------------------------------------
(* Numbers as text: what to_csv writes and what read_csv parses *)

Sign(m) == IF m < 0 THEN <<"-">> ELSE <<>>

IntText(v) == Sign(v) \o NatText(Abs(v))

\* FracText without the zeros on the left: 1.05 is written 1.5.
FracText_unpadded(m, e) == IF e = 0 THEN <<"0">> ELSE NatText(Abs(m) % Pow10(e))

\* The fraction's digits of a float m * 10^(-e): e digits, "0" for a whole number.
FracText(m, e) == IF e = 0 THEN <<"0">> ELSE PadText(Abs(m) % Pow10(e), e)

\* repr of a float: the shortest decimal that reads back as the same number.
FloatText(m, e) ==
    Sign(m) \o NatText(Abs(m) \div Pow10(e)) \o <<".">> \o FracText(m, e)

Unsigned(txt) == IF Len(txt) > 0 /\ txt[1] = "-" THEN Tail(txt) ELSE txt

IsIntText(txt) == AllDigits(Unsigned(txt))

IsFloatText(txt) ==
    LET b == Unsigned(txt)
        dot == Find(b, ".")
    IN  /\ dot > 0
        /\ AllDigits(SubSeq(b, 1, dot - 1))
        /\ AllDigits(SubSeq(b, dot + 1, Len(b)))

IsNumText(txt) == IsIntText(txt) \/ IsFloatText(txt)

Neg(txt) == Len(txt) > 0 /\ txt[1] = "-"

ParseInt(txt) ==
    LET v == NatOf(Unsigned(txt)) IN Int_(IF Neg(txt) THEN -v ELSE v)

\* A numeric field read as a float (an integer field too: "3" is 3.0).
ParseFloat(txt) ==
    LET b == Unsigned(txt)
        dot == Find(b, ".")
        ip == IF dot = 0 THEN b ELSE SubSeq(b, 1, dot - 1)
        fp == IF dot = 0 THEN <<>> ELSE SubSeq(b, dot + 1, Len(b))
        v == NatOf(ip \o fp)
    IN  Float(IF Neg(txt) THEN -v ELSE v, Len(fp))

-----------------------------------------------------------------------------
(* The calendar *)

IsLeap(y) == y % 4 = 0 /\ (y % 100 # 0 \/ y % 400 = 0)

DaysInMonth(y, m) ==
    IF m = 2 THEN (IF IsLeap(y) THEN 29 ELSE 28)
    ELSE IF m \in {4, 6, 9, 11} THEN 30 ELSE 31

RECURSIVE DaysBeforeMonth(_, _)
DaysBeforeMonth(y, m) ==
    IF m = 1 THEN 0 ELSE DaysBeforeMonth(y, m - 1) + DaysInMonth(y, m - 1)

\* The proleptic Gregorian ordinal: 0001-01-01, a Monday, is day 1.
Ordinal(y, m, d) ==
    LET p == y - 1
    IN  365 * p + (p \div 4) - (p \div 100) + (p \div 400) + DaysBeforeMonth(y, m) + d

\* Monday is 0, Sunday is 6.
Weekday(y, m, d) == (Ordinal(y, m, d) + 6) % 7

\* The Monday of ISO week 1 of year y: the week that holds the year's first Thursday.
IsoWeek1Monday(y) ==
    LET first == Ordinal(y, 1, 1)
        wd == (first + 6) % 7
    IN  IF wd > 3 THEN first - wd + 7 ELSE first - wd

\* IsoWeek without the days that belong to a week of the year before or after.
IsoWeek_sameyear(y, m, d) == ((Ordinal(y, m, d) - IsoWeek1Monday(y)) \div 7) + 1

\* The ISO-8601 week number of a date.
IsoWeek(y, m, d) ==
    LET today == Ordinal(y, m, d)
        w == (today - IsoWeek1Monday(y)) \div 7
    IN  IF today < IsoWeek1Monday(y)
        THEN ((today - IsoWeek1Monday(y - 1)) \div 7) + 1
        ELSE IF w >= 52 /\ today >= IsoWeek1Monday(y + 1) THEN 1
        ELSE w + 1

DayNames == << <<"M","o","n","d","a","y">>, <<"T","u","e","s","d","a","y">>,
               <<"W","e","d","n","e","s","d","a","y">>,
               <<"T","h","u","r","s","d","a","y">>, <<"F","r","i","d","a","y">>,
               <<"S","a","t","u","r","d","a","y">>, <<"S","u","n","d","a","y">> >>

ValidDate(y, m, d) == m \in 1..12 /\ d >= 1 /\ d <= DaysInMonth(y, m)

ValidTime(H, M, S) == H \in 0..23 /\ M \in 0..59 /\ S \in 0..59

-----------------------------------------------------------------------------
(* pandas: the column operations clean uses *)

\* A row with column col set to cell v (the column is added when absent).
SetCol(r, col, v) == (col :> v) @@ r

\* DataFrame.dropna(subset=[col]): the rows whose col is not missing.
dropna(rows, col) == SelectSeq(rows, LAMBDA r : ~isna(r[col]))

\* A text pd.to_datetime parses as a date: YYYY-MM-DD HH:MM, the format of the
\* raw file, naming a minute of a day of the calendar.  (pandas reads other
\* formats too; every date of the raw files here is written in this one.)
DateShape(txt) ==
    /\ Len(txt) = 16
    /\ \A i \in 1..16 :
          IF i \in {5, 8} THEN txt[i] = "-"
          ELSE IF i = 11 THEN txt[i] = " "
          ELSE IF i = 14 THEN txt[i] = ":"
          ELSE IsDigit(txt[i])

DateField(txt, from, to) == NatOf(SubSeq(txt, from, to))

DateLike(txt) ==
    /\ DateShape(txt)
    /\ ValidDate(DateField(txt, 1, 4), DateField(txt, 6, 7), DateField(txt, 9, 10))
    /\ ValidTime(DateField(txt, 12, 13), DateField(txt, 15, 16), 0)

ParseDate(txt) ==
    Ts(DateField(txt, 1, 4), DateField(txt, 6, 7), DateField(txt, 9, 10),
       DateField(txt, 12, 13), DateField(txt, 15, 16), 0)

\* Whether pd.to_datetime (errors="raise") accepts a cell.
Convertible(c) ==
    CASE c.t = "null" -> TRUE
      [] c.t = "ts" -> TRUE
      [] c.t = "str" -> DateLike(c.s)

\* pd.to_datetime of one cell: a missing value becomes NaT, a timestamp stays.
to_datetime(c) ==
    CASE c.t = "null" -> Null
      [] c.t = "ts" -> c
      [] c.t = "str" -> ParseDate(c.s)

\* pd.to_datetime of a column raises when one value is not date-like.
to_datetime_raises(rows) ==
    \E i \in 1..Len(rows) : ~Convertible(rows[i]["InvoiceDate"])

\* series >= 0 in place of series > 0.
gt0_nonneg(c) == IsNum(c) /\ c.n[1] >= 0

\* series > 0, one cell: a missing value compares False.
gt0(c) == IsNum(c) /\ c.n[1] > 0

\* The integer part of m * 10^(-e), the fraction dropped (toward zero).
Trunc(m, e) == IF m < 0 THEN -((-m) \div Pow10(e)) ELSE m \div Pow10(e)

\* astype(int) rounding down (floor) in place of toward zero.
astype_int_floor(c) == Int_(c.n[1] \div Pow10(c.n[2]))

\* Series.astype(int), one cell.
astype_int(c) == Int_(Trunc(c.n[1], c.n[2]))

\* a * b kept to one decimal.
mul_rounded(a, b) ==
    IF isna(a) \/ isna(b) THEN Null
    ELSE IF a.n[2] + b.n[2] > 1
         THEN Float((a.n[1] * b.n[1]) \div Pow10(a.n[2] + b.n[2] - 1), 1)
    ELSE Float(a.n[1] * b.n[1], a.n[2] + b.n[2])

\* a * b, one cell: int * int is an int, anything with a float a float.
mul(a, b) ==
    IF isna(a) \/ isna(b) THEN Null
    ELSE IF a.t = "int" /\ b.t = "int" THEN Int_(a.n[1] * b.n[1])
    ELSE Float(a.n[1] * b.n[1], a.n[2] + b.n[2])

\* An integer column that holds a missing value is a float column.
AsFloat(c) == IF c.t = "int" THEN Float(c.n[1], 0) ELSE c

Upcast(c, hasNull) == IF hasNull THEN AsFloat(c) ELSE c

dt_year(c) == IF isna(c) THEN Null ELSE Int_(c.n[1])

dt_month(c) == IF isna(c) THEN Null ELSE Int_(c.n[2])

to_period_M(c) == IF isna(c) THEN Null ELSE Per(c.n[1], c.n[2])

\* Series.dt.isocalendar().week: a nullable integer column, <NA> for NaT.
isocalendar_week(c) == IF isna(c) THEN Null ELSE Int_(IsoWeek(c.n[1], c.n[2], c.n[3]))

day_name(c) == IF isna(c) THEN Null ELSE Str(DayNames[Weekday(c.n[1], c.n[2], c.n[3]) + 1])

IsSpace(ch) == ch \in {" ", "\t", "\n", "\r"}

RECURSIVE lstrip(_)
lstrip(txt) == IF Len(txt) > 0 /\ IsSpace(txt[1]) THEN lstrip(Tail(txt)) ELSE txt

RECURSIVE rstrip(_)
rstrip(txt) ==
    IF Len(txt) > 0 /\ IsSpace(txt[Len(txt)])
    THEN rstrip(SubSeq(txt, 1, Len(txt) - 1)) ELSE txt

strip(txt) == rstrip(lstrip(txt))

\* Series.str.lstrip() in place of strip().
str_lstrip(c) == IF c.t = "str" THEN Str(lstrip(c.s)) ELSE Null

\* Series.str.strip(), one cell: a value that is no text becomes missing.
str_strip(c) == IF c.t = "str" THEN Str(strip(c.s)) ELSE Null

\* Whether a column has the object dtype, which .str needs: it holds text, or
\* the frame has no rows (read_csv reads a column of a header-only file as
\* object, and one whose fields are all empty as float64).
IsObject(rows, col) == Len(rows) = 0 \/ \E i \in 1..Len(rows) : rows[i][col].t = "str"

\* The index left as the filters left it.
reset_index_skipped(rows) == rows

\* DataFrame.reset_index(drop=True): the index labels become 0..n-1.
reset_index(rows) == [i \in 1..Len(rows) |-> SetCol(rows[i], "index", Int_(i - 1))]

Has(cols, c) == \E i \in 1..Len(cols) : cols[i] = c

\* df[c] = ... for each c of new: a new column goes last, an old one stays put.
AddColumns(cols, new) == cols \o SelectSeq(new, LAMBDA c : ~Has(cols, c))

-----------------------------------------------------------------------------
(* clean *)

NoFrame == [columns |-> <<>>, rows |-> <<>>]

Ok(f) == [ok |-> TRUE, err |-> "", df |-> f]

Raise(e) == [ok |-> FALSE, err |-> e, df |-> NoFrame]

DerivedColumns ==
    <<"TotalPrice", "InvoiceYear", "InvoiceMonth", "YearMonth", "InvoiceWeek", "InvoiceDay">>

\* The dates parsed after all the filters instead of after the first one.
drop_all_invalid(df) ==
    dropna(SelectSeq(SelectSeq(dropna(df.rows, "Description"),
                         LAMBDA r : IsNum(r["Quantity"]) /\ r["Quantity"].n[1] > 0),
                  LAMBDA r : IsNum(r["Price"]) /\ r["Price"].n[1] > 0),
           "Customer ID")

\* The rows pd.to_datetime sees: those left by the drop of missing Descriptions.
drop_missing_description(df) == dropna(df.rows, "Description")

\* The positivity filters and the drop of missing customer identifiers.
keep_valid(rows) ==
    dropna(SelectSeq(SelectSeq(rows, LAMBDA r : gt0(r["Quantity"])),
                  LAMBDA r : gt0(r["Price"])),
           "Customer ID")

\* The six derived columns of one row; an integer column derived from a
\* datetime column that holds NaT is a float column.
features(r, hasNaT) ==
    LET d == r["InvoiceDate"]
    IN  [TotalPrice |-> mul(r["Quantity"], r["Price"]),
         InvoiceYear |-> Upcast(dt_year(d), hasNaT),
         InvoiceMonth |-> Upcast(dt_month(d), hasNaT),
         YearMonth |-> to_period_M(d),
         InvoiceWeek |-> isocalendar_week(d),
         InvoiceDay |-> day_name(d)] @@ r

\* clean(df): the frame it returns or the error it raises.
clean(df) ==
    LET r1 == drop_missing_description(df)
        r2 == [i \in 1..Len(r1) |->
                 SetCol(r1[i], "InvoiceDate", to_datetime(r1[i]["InvoiceDate"]))]
        r5 == keep_valid(r2)
        r6 == [i \in 1..Len(r5) |->
                 SetCol(r5[i], "Customer ID", astype_int(r5[i]["Customer ID"]))]
        hasNaT == \E i \in 1..Len(r6) : isna(r6[i]["InvoiceDate"])
        r7 == [i \in 1..Len(r6) |-> features(r6[i], hasNaT)]
        r8 == [i \in 1..Len(r7) |->
                 SetCol(r7[i], "Description", str_strip(r7[i]["Description"]))]
    IN  IF to_datetime_raises(r1) THEN Raise("ParserError")
        ELSE IF ~IsObject(df.rows, "Description") THEN Raise("AttributeError")
        ELSE Ok([columns |-> AddColumns(df.columns, DerivedColumns),
                 rows |-> reset_index(r8)])

-----------------------------------------------------------------------------
(* Files: to_csv and read_csv *)

\* A file that does not exist, and a delimited text file: its header and its
\* lines, each line a field text per column.
Absent == [exists |-> FALSE, header |-> <<>>, lines |-> <<>>]

CsvFile(h, ls) == [exists |-> TRUE, header |-> h, lines |-> ls]

\* A timestamp as to_csv writes it: the date alone when every time of the
\* column is midnight.
TsText(n, dateOnly) ==
    LET date == PadText(n[1], 4) \o <<"-">> \o PadText(n[2], 2) \o <<"-">> \o PadText(n[3], 2)
        time == PadText(n[4], 2) \o <<":">> \o PadText(n[5], 2) \o <<":">> \o PadText(n[6], 2)
    IN  IF dateOnly THEN date ELSE date \o <<" ">> \o time

PeriodText(n) == PadText(n[1], 4) \o <<"-">> \o PadText(n[2], 2)

\* One field of the written file; a missing value is the empty field.
CellText(c, dateOnly) ==
    CASE c.t = "null" -> <<>>
      [] c.t = "int" -> IntText(c.n[1])
      [] c.t = "float" -> FloatText(c.n[1], c.n[2])
      [] c.t = "str" -> c.s
      [] c.t = "ts" -> TsText(c.n, dateOnly)
      [] c.t = "per" -> PeriodText(c.n)

Midnight(c) == c.t = "ts" => (c.n[4] = 0 /\ c.n[5] = 0 /\ c.n[6] = 0)

\* DataFrame.to_csv(path, index=False): the header and one line per row, the
\* index labels left out.
to_csv(df) ==
    LET cols == {df.columns[k] : k \in 1..Len(df.columns)}
        dateOnly(c) == \A i \in 1..Len(df.rows) : Midnight(df.rows[i][c])
    IN  CsvFile(df.columns,
                [i \in 1..Len(df.rows) |->
                   [c \in cols |-> CellText(df.rows[i][c], dateOnly(c))]])

\* Some of the field texts read_csv takes for a missing value.
NaValues == {<<>>, <<"N","a","N">>, <<"n","a","n">>, <<"N","A">>, <<"N","U","L","L">>}

\* pd.read_csv: each column is int64 when every field is an integer, float64
\* when every field is a number or missing, and object (text) otherwise; the
\* rows are labelled 0..n-1.
read_csv(file) ==
    LET cols == {file.header[k] : k \in 1..Len(file.header)}
        n == Len(file.lines)
        na(i, c) == file.lines[i][c] \in NaValues
        allInt(c) == \A i \in 1..n : ~na(i, c) /\ IsIntText(file.lines[i][c])
        allNum(c) == \A i \in 1..n : na(i, c) \/ IsNumText(file.lines[i][c])
        cell(i, c) ==
            IF na(i, c) THEN Null
            ELSE IF allInt(c) THEN ParseInt(file.lines[i][c])
            ELSE IF allNum(c) THEN ParseFloat(file.lines[i][c])
            ELSE Str(file.lines[i][c])
    IN  [columns |-> file.header,
         rows |-> [i \in 1..n |-> ("index" :> Int_(i - 1)) @@ [c \in cols |-> cell(i, c)]]]

\* load_raw(path): the frame read, or the error when the file is absent.
load_raw(file) ==
    IF file.exists THEN Ok(read_csv(file)) ELSE Raise("FileNotFoundError")

\* save_clean(df, path): mkdir(parents=True, exist_ok=True), then to_csv.  dir
\* tells whether the parent directory exists and old is the file at the path;
\* canMkdir and canWrite tell whether the file system allows each step.
save_clean(df, dir, old, canMkdir, canWrite) ==
    IF ~dir /\ ~canMkdir THEN [ok |-> FALSE, err |-> "OSError", dir |-> dir, file |-> old]
    ELSE IF ~canWrite THEN [ok |-> FALSE, err |-> "OSError", dir |-> TRUE, file |-> old]
    ELSE [ok |-> TRUE, err |-> "", dir |-> TRUE, file |-> to_csv(df)]

-----------------------------------------------------------------------------
(* The raw files of the model *)

RawColumns ==
    <<"InvoiceNo", "StockCode", "Description", "Quantity", "InvoiceDate", "Price",
      "Customer ID", "Country">>

Descriptions == {<<" ", "M", "u", "g", " ">>, <<>>, <<" ", " ">>, <<"M", "u", "g">>}

Quantities == {<<"3">>, <<"-", "5">>, <<"0">>, <<>>}

BadDate == <<"a", "b", "c">>

InvoiceDates ==
    {<<"2", "0", "1", "0", "-", "1", "2", "-", "0", "1", " ", "0", "8", ":", "2", "6">>,
     <<>>,
     <<"a", "b", "c">>,
     <<"2", "0", "1", "1", "-", "0", "2", "-", "3", "0", " ", "1", "0", ":", "0", "0">>,
     <<"2", "0", "1", "0", "-", "0", "1", "-", "0", "1", " ", "0", "0", ":", "0", "0">>,
     <<"2", "0", "1", "2", "-", "1", "2", "-", "3", "1", " ", "1", "2", ":", "0", "0">>,
     <<"2", "0", "1", "1", "-", "0", "1", "-", "0", "2", " ", "2", "3", ":", "5", "9">>,
     <<"2", "0", "1", "2", "-", "0", "2", "-", "2", "9", " ", "0", "0", ":", "0", "0">>}

Prices == {<<"2", ".", "5", "0">>, <<"0", ".", "0">>, <<"-", "1", ".", "5">>, <<>>, <<"0", ".", "3", "5">>}

CustomerIDs == {<<"1", "7", "8", "5", "0", ".", "0">>, <<>>, <<"1", "7", "8", "5", "0", ".", "7">>, <<"-", "3", ".", "7">>, <<"1", "2">>}

\* The scenario row of the specification: " Mug ", 3, 2010-12-01 08:26, 2.50, 17850.0.
BaseFields ==
    [Description |-> <<" ", "M", "u", "g", " ">>, Quantity |-> <<"3">>, InvoiceDate |-> <<"2", "0", "1", "0", "-", "1", "2", "-", "0", "1", " ", "0", "8", ":", "2", "6">>,
     Price |-> <<"2", ".", "5", "0">>, CustomerID |-> <<"1", "7", "8", "5", "0", ".", "0">>]

FieldNames == {"Description", "Quantity", "InvoiceDate", "Price", "CustomerID"}

Deviations(f) == Cardinality({k \in FieldNames : f[k] # BaseFields[k]})

\* The value of each field for which a filter of clean drops the record.
Dropped ==
    [Description |-> <<>>, Quantity |-> <<"-", "5">>, InvoiceDate |-> BadDate,
     Price |-> <<"0", ".", "0">>, CustomerID |-> <<>>]

\* The rows a raw file is made of: the scenario row with one field changed,
\* or with an unparseable date and one more field that drops the record.
InputFields ==
    {f \in [Description : Descriptions, Quantity : Quantities, InvoiceDate : InvoiceDates,
            Price : Prices, CustomerID : CustomerIDs] :
        \/ Deviations(f) <= 1
        \/ /\ f.InvoiceDate = BadDate
           /\ Deviations(f) = 2
           /\ \A k \in FieldNames : f[k] \in {BaseFields[k], Dropped[k]}}

\* Line i of a raw file: the invoice number tells the lines apart.
RawLine(f, i) ==
    [c \in {RawColumns[k] : k \in 1..Len(RawColumns)} |->
        CASE c = "InvoiceNo" -> NatText(536364 + i)
          [] c = "StockCode" -> <<"8", "5", "1", "2", "3", "A">>
          [] c = "Country" -> <<"U", "K">>
          [] c = "Customer ID" -> f.CustomerID
          [] OTHER -> f[c]]

RawFiles ==
    {CsvFile(RawColumns, [i \in 1..Len(fs) |-> RawLine(fs[i], i)]) :
        fs \in UNION {[1..m -> InputFields] : m \in 0..MaxRows}}

-----------------------------------------------------------------------------
(* The state *)

VARIABLES
    pc,        \* the stage main (or the study of clean) is at
    infile,    \* the file at the input path
    raw,       \* what load_raw returned or raised
    cleaned,   \* what clean returned or raised
    outdir,    \* whether the parent directory of the output path exists
    outfile,   \* the file at the output path
    stdout,    \* the lines printed
    again,     \* what clean returned or raised on the frame clean returned
    reloaded   \* what load_raw returned on the file save_clean wrote

vars == <<pc, infile, raw, cleaned, outdir, outfile, stdout, again, reloaded>>

Unset == [ok |-> FALSE, err |-> "unset", df |-> NoFrame]

\* A file left at the output path by an earlier run.
OldFile == CsvFile(<<"InvoiceNo">>, <<>>)

-----------------------------------------------------------------------------
(* main *)

\* The next stage entered whether or not the stage before it raised.
after_ignoring_errors(res, next) == next

\* Where main goes after a stage: an exception ends the run.
after(res, next) == IF res.ok THEN next ELSE "failed"

Init ==
    /\ pc = "start"
    /\ infile \in RawFiles \cup {Absent}
    /\ raw = Unset
    /\ cleaned = Unset
    /\ outdir \in BOOLEAN
    /\ outfile \in (IF outdir THEN {Absent, OldFile} ELSE {Absent})
    /\ stdout = <<>>
    /\ again = Unset
    /\ reloaded = Unset

\* parser.parse_args(argv): a bad command line exits before any stage.
ParseArgs ==
    /\ pc = "start"
    /\ \E ok \in BOOLEAN : pc' = IF ok THEN "load" ELSE "exit"
    /\ UNCHANGED <<infile, raw, cleaned, outdir, outfile, stdout, again, reloaded>>

\* df = load_raw(args.input)
LoadRaw ==
    /\ pc = "load"
    /\ raw' = load_raw(infile)
    /\ pc' = after(raw', "clean")
    /\ UNCHANGED <<infile, cleaned, outdir, outfile, stdout, again, reloaded>>

\* df = clean(df)
Clean ==
    /\ pc = "clean"
    /\ cleaned' = clean(raw.df)
    /\ pc' = after(cleaned', "save")
    /\ UNCHANGED <<infile, raw, outdir, outfile, stdout, again, reloaded>>

\* out = save_clean(df, args.output)
SaveClean ==
    /\ pc = "save"
    /\ \E canMkdir \in BOOLEAN, canWrite \in BOOLEAN :
          LET res == save_clean(cleaned.df, outdir, outfile, canMkdir, canWrite)
          IN  /\ outdir' = res.dir
              /\ outfile' = res.file
              /\ pc' = after(res, "print")
    /\ UNCHANGED <<infile, raw, cleaned, stdout, again, reloaded>>

\* print(f"Wrote cleaned data to: {out}")
PrintWrote ==
    /\ pc = "print"
    /\ stdout' = Append(stdout, "Wrote cleaned data to: out")
    /\ pc' = "done"
    /\ UNCHANGED <<infile, raw, cleaned, outdir, outfile, again, reloaded>>

Next == ParseArgs \/ LoadRaw \/ Clean \/ SaveClean \/ PrintWrote

Spec == Init /\ [][Next]_vars

-----------------------------------------------------------------------------
(* clean studied as a function: applied to a raw frame, applied again to the *)
(* frame it returned, and its frame saved and loaded again.                   *)

InitClean ==
    /\ pc = "clean"
    /\ infile \in RawFiles
    /\ raw = load_raw(infile)
    /\ cleaned = Unset
    /\ outdir = TRUE
    /\ outfile = Absent
    /\ stdout = <<>>
    /\ again = Unset
    /\ reloaded = Unset

\* clean(clean(df))
CleanAgain ==
    /\ cleaned.ok
    /\ again = Unset
    /\ again' = clean(cleaned.df)
    /\ UNCHANGED <<pc, infile, raw, cleaned, outdir, outfile, stdout, reloaded>>

\* load_raw(save_clean(clean(df), path))
SaveAndLoad ==
    /\ cleaned.ok
    /\ reloaded = Unset
    /\ LET res == save_clean(cleaned.df, outdir, outfile, TRUE, TRUE)
       IN  /\ outfile' = res.file
           /\ reloaded' = load_raw(res.file)
    /\ UNCHANGED <<pc, infile, raw, cleaned, outdir, stdout, again>>

NextClean == Clean \/ CleanAgain \/ SaveAndLoad

CleanSpec == InitClean /\ [][NextClean]_vars

-----------------------------------------------------------------------------
(* The claims *)

In == raw.df.rows

Out == cleaned.df.rows

\* The value of a numeric cell is positive.
Positive(c) == c.t \in {"int", "float"} /\ c.n[1] > 0

\* The four predicates of a record that clean keeps.
Valid(r) ==
    /\ r["Description"].t # "null"
    /\ Positive(r["Quantity"])
    /\ Positive(r["Price"])
    /\ r["Customer ID"].t # "null"

\* The raw record an output record comes from: the one with its invoice number.
Src(o) == In[CHOOSE i \in 1..Len(In) : In[i]["InvoiceNo"] = o["InvoiceNo"]]

\* The positions of the valid raw records and the k-th of them.
ValidAt == {i \in 1..Len(In) : Valid(In[i])}

Kth(k) == CHOOSE i \in ValidAt : Cardinality({j \in ValidAt : j <= i}) = k

\* C1: every record clean returns has a Description and a customer identifier
\* that are not missing, a Quantity > 0 and a Price > 0.
C1_OutputRecordsValid ==
    cleaned.ok => \A k \in 1..Len(Out) : Valid(Out[k])

\* C1 witness: clean returned one record of a two-record dataset.
C1_Witness == cleaned.ok /\ Len(In) = 2 /\ Len(Out) = 1

\* C2: the records clean returns are exactly the raw records that satisfy the
\* four predicates, each once and in the raw order, labelled 0..n-1; so there
\* are never more records than in the raw dataset.
C2_ExactlyValidInOrder ==
    cleaned.ok =>
        /\ Len(Out) = Cardinality(ValidAt)
        /\ Len(Out) <= Len(In)
        /\ \A k \in 1..Len(Out) :
              /\ Out[k]["index"] = Int_(k - 1)
              /\ \A c \in {"InvoiceNo", "StockCode", "Quantity", "Price", "Country"} :
                    Out[k][c] = In[Kth(k)][c]

\* C2 witness: the first raw record was dropped and the second one kept, so
\* the kept record's label changed from 1 to 0.
C2_Witness ==
    /\ cleaned.ok /\ Len(In) = 2 /\ Len(Out) = 1
    /\ ~Valid(In[1])
    /\ Out[1]["InvoiceNo"] = In[2]["InvoiceNo"]

\* C3 as stated: no record clean returns has an empty Description.
C3_DescriptionNonEmpty ==
    cleaned.ok =>
        \A k \in 1..Len(Out) :
            Out[k]["Description"].t = "str" /\ Len(Out[k]["Description"].s) > 0

Blank(txt) == \A i \in 1..Len(txt) : txt[i] \in {" ", "\t", "\n", "\r"}

\* C3 amended: every Description clean returns is text that neither starts nor
\* ends with whitespace, and it is empty exactly when the raw Description
\* consists of whitespace only.
C3_DescriptionStripped ==
    cleaned.ok =>
        \A k \in 1..Len(Out) :
            LET d == Out[k]["Description"]
            IN  /\ d.t = "str"
                /\ Len(d.s) > 0 => ~Blank(<<d.s[1]>>) /\ ~Blank(<<d.s[Len(d.s)]>>)
                /\ Len(d.s) = 0 <=> Blank(Src(Out[k])["Description"].s)

\* C3 witness: clean returned a record whose Description is the empty text.
C3_Witness ==
    cleaned.ok /\ \E k \in 1..Len(Out) : Out[k]["Description"] = Str(<<>>)

WeekdayNames ==
    {<<"M","o","n","d","a","y">>, <<"T","u","e","s","d","a","y">>,
     <<"W","e","d","n","e","s","d","a","y">>, <<"T","h","u","r","s","d","a","y">>,
     <<"F","r","i","d","a","y">>, <<"S","a","t","u","r","d","a","y">>,
     <<"S","u","n","d","a","y">>}

\* The derived calendar fields of a record are in range.
CalendarInRange(r) ==
    /\ IsNum(r["InvoiceWeek"]) /\ r["InvoiceWeek"].n[2] = 0
    /\ r["InvoiceWeek"].n[1] \in 1..53
    /\ IsNum(r["InvoiceMonth"]) /\ r["InvoiceMonth"].n[2] = 0
    /\ r["InvoiceMonth"].n[1] \in 1..12
    /\ r["InvoiceDay"].t = "str" /\ r["InvoiceDay"].s \in WeekdayNames

\* C4 as stated: in every record clean returns InvoiceWeek is in 1..53,
\* InvoiceMonth in 1..12 and InvoiceDay a weekday name.
C4_CalendarFieldsInRange ==
    cleaned.ok => \A k \in 1..Len(Out) : CalendarInRange(Out[k])

\* C4 amended: that holds of every returned record whose InvoiceDate is not
\* missing; in a record whose InvoiceDate is missing the three are missing.
C4_CalendarFieldsInRangeOrMissing ==
    cleaned.ok =>
        \A k \in 1..Len(Out) :
            IF Out[k]["InvoiceDate"].t = "null"
            THEN \A c \in {"InvoiceWeek", "InvoiceMonth", "InvoiceDay"} :
                    Out[k][c].t = "null"
            ELSE CalendarInRange(Out[k])

\* C4 witness: clean returned a record without InvoiceDate beside one dated
\* 2010-01-01, a day of ISO week 53.
C4_Witness ==
    /\ cleaned.ok
    /\ \E k \in 1..Len(Out) : Out[k]["InvoiceDate"].t = "null"
    /\ \E k \in 1..Len(Out) :
          Out[k]["InvoiceDate"].t = "ts" /\ Out[k]["InvoiceWeek"].n[1] = 53

\* C5: clean applied to the frame clean returned succeeds and returns that
\* frame: the same columns, rows, order, labels and values.
C5_CleanIdempotent ==
    again # Unset => again.ok /\ again.df = cleaned.df

\* C5 witness: clean ran a second time on a frame of two records, one of them
\* with an empty Description and one without InvoiceDate.
C5_Witness ==
    /\ again.ok /\ Len(again.df.rows) = 2
    /\ \E k \in 1..2 : again.df.rows[k]["Description"] = Str(<<>>)
    /\ \E k \in 1..2 : again.df.rows[k]["InvoiceDate"].t = "null"

\* A raw InvoiceDate that is no date.
NotDate(c) == c.t = "str" /\ ~DateLike(c.s)

\* A raw record that has a Description and an InvoiceDate that is no date.
Offending(r) == r["Description"].t # "null" /\ NotDate(r["InvoiceDate"])

\* C6: clean raises the parse error exactly when a record that has a
\* Description has an InvoiceDate that is no date, whatever the record's
\* Quantity, Price and customer identifier; when it returns, every raw record
\* it left out fails one of the four predicates.
C6_BadDateAborts ==
    cleaned # Unset =>
        /\ (\E i \in 1..Len(In) : Offending(In[i]))
              <=> (~cleaned.ok /\ cleaned.err = "ParserError")
        /\ cleaned.ok =>
              \A i \in 1..Len(In) :
                  (\A k \in 1..Len(Out) : Out[k]["InvoiceNo"] # In[i]["InvoiceNo"])
                      => ~Valid(In[i])

\* C6 witness: clean raised on a dataset whose only offending record has a
\* Quantity that is not positive.
C6_Witness ==
    /\ cleaned = Raise("ParserError")
    /\ \E i \in 1..Len(In) : Offending(In[i])
    /\ \A i \in 1..Len(In) : Offending(In[i]) => ~Positive(In[i]["Quantity"])

\* C7: the stages run in the order load, clean, save, print.  The output
\* file and its directory change only in the save stage, which is reached
\* only after load and clean succeeded; a line is printed only after save
\* wrote the frame clean returned, and only once.
C7_StagesInOrder ==
    /\ [][(outfile' # outfile \/ outdir' # outdir)
            => (pc = "save" /\ raw.ok /\ cleaned.ok)]_vars
    /\ [][stdout' # stdout
            => (/\ pc = "print"
                /\ stdout = <<>>
                /\ Len(stdout') = 1
                /\ raw.ok /\ cleaned.ok
                /\ outdir /\ outfile = to_csv(cleaned.df))]_vars
    /\ [](pc \in {"save", "print", "done"} => raw.ok /\ cleaned.ok)
    /\ [](pc = "clean" => raw.ok)

\* C7 witness: clean failed in a run of main: nothing was written or printed.
C7_Witness ==
    /\ pc = "failed" /\ raw.ok /\ cleaned = Raise("ParserError")
    /\ ~outdir /\ outfile = Absent /\ stdout = <<>>

\* C8: in every record clean returns TotalPrice is the exact product of the
\* Quantity and the Price of that record, which are those of the raw record.
C8_TotalPriceExact ==
    cleaned.ok =>
        \A k \in 1..Len(Out) :
            LET q == Out[k]["Quantity"]
                p == Out[k]["Price"]
                tp == Out[k]["TotalPrice"]
            IN  /\ IsNum(tp)
                /\ tp.n[1] * Pow10(q.n[2] + p.n[2]) = q.n[1] * p.n[1] * Pow10(tp.n[2])
                /\ q = Src(Out[k])["Quantity"]
                /\ p = Src(Out[k])["Price"]

\* C8 witness: clean returned a record with Quantity 3, Price 0.35 and
\* TotalPrice 1.05.
C8_Witness ==
    cleaned.ok /\ \E k \in 1..Len(Out) :
        Out[k]["Price"] = Float(35, 2) /\ Out[k]["TotalPrice"] = Float(105, 2)

\* The integer v is the decimal m * 10^(-e) with its fraction dropped.
TruncatedTo(v, m, e) ==
    /\ Abs(v) * Pow10(e) <= Abs(m)
    /\ Abs(m) < (Abs(v) + 1) * Pow10(e)
    /\ v # 0 => (v < 0 <=> m < 0)

\* C9: in every record clean returns the customer identifier is an integer,
\* the raw identifier truncated toward zero; the cast meets no missing value.
C9_CustomerIdTruncated ==
    cleaned.ok =>
        \A k \in 1..Len(Out) :
            LET c == Out[k]["Customer ID"]
                r == Src(Out[k])["Customer ID"]
            IN  /\ c.t = "int"
                /\ IsNum(r)
                /\ TruncatedTo(c.n[1], r.n[1], r.n[2])

\* C9 witness: clean returned -3 for the identifier -3.7 and 17850 for 17850.7.
C9_Witness ==
    /\ cleaned.ok /\ Len(Out) = 2
    /\ \E k \in 1..2 : Src(Out[k])["Customer ID"] = Float(-37, 1)
                        /\ Out[k]["Customer ID"] = Int_(-3)
    /\ \E k \in 1..2 : Src(Out[k])["Customer ID"] = Float(178507, 1)
                        /\ Out[k]["Customer ID"] = Int_(17850)

\* Two cells hold the same value: both missing, the same number, or the same
\* value of the same kind.
SameValue(a, b) ==
    IF IsNum(a) /\ IsNum(b) THEN a.n = b.n ELSE a = b

Back == reloaded.df.rows

=============================================================================
